---- MODULE Spec2Model ----
(***************************************************************************)
(* Model of offline_voice/model_downloader.py: the VoskModelDownloader     *)
(* catalog, the download / extract / cleanup flow of download_model, the   *)
(* download_recommended loop, get_model_path and the command surface.      *)
(*                                                                         *)
(* The filesystem is the set of directories and the set of plain files     *)
(* directly under the models directory.  The remote host, the archive it   *)
(* serves and the outcome of every unlink are chosen by the environment.   *)
(***************************************************************************)
EXTENDS Integers, Sequences, FiniteSets, TLC

\* ---------------------------------------------------------------- bounds
\* Largest Content-Length the server declares, largest chunk it delivers,
\* largest number of bytes streamed in one call, entries per archive.
MaxTotal == 1
MaxChunk == 2
MaxBytes == 2
MaxEntries == 2

\* Number of unlink calls the environment lets fail in one run.
MaxUnlinkFailures == 1

\* ---------------------------------------------------------------- catalog
\* self.available_models, in declaration order (dict order is insertion order).
CatalogOrder == <<"small-hi", "small-en", "hi", "en">>

Keys == {CatalogOrder[i] : i \in 1..Len(CatalogOrder)}

available_models ==
  [k \in Keys |->
     CASE k = "small-hi" -> [name |-> "vosk-model-small-hi-0.22",
                             language |-> "Hindi (Compact)", size |-> "45MB",
                             recommended |-> TRUE]
       [] k = "small-en" -> [name |-> "vosk-model-small-en-us-0.15",
                             language |-> "English (Compact)", size |-> "40MB",
                             recommended |-> TRUE]
       [] k = "hi"       -> [name |-> "vosk-model-hi-0.22",
                             language |-> "Hindi (Full)", size |-> "1.8GB",
                             recommended |-> FALSE]
       [] k = "en"       -> [name |-> "vosk-model-en-us-0.22",
                             language |-> "English (Full)", size |-> "1.8GB",
                             recommended |-> FALSE]]

Name(k) == available_models[k].name

ModelNames == {Name(k) : k \in Keys}

\* A key that is not in the catalog, and the keys a caller may pass.
UnknownKey == "or"
KeyArgs == Keys \cup {UnknownKey}

\* Language preferences a caller may pass to get_model_path.
Preferences == {"hi", "en", "or"}

\* models_dir, as a path relative to the working directory.
Root == <<"models">>

\* zip_path = models_dir / f"{model_name}.zip": the file name under the root.
ZipName(k) == Name(k) \o ".zip"

\* ---------------------------------------------------------------- paths
\* An archive entry name is a sequence of "/"-separated segments; a leading
\* "" segment is an absolute name ("/etc/x" splits into "", "etc", "x").
InvalidPathParts == {"", ".", ".."}

RECURSIVE DropInvalid(_)
DropInvalid(p) ==
  IF p = <<>> THEN <<>>
  ELSE IF Head(p) \in InvalidPathParts THEN DropInvalid(Tail(p))
       ELSE <<Head(p)>> \o DropInvalid(Tail(p))

\* The entry name with every traversal segment left in it (not what extractall
\* does: the change a missing sanitisation would make).
KeepAllSegments(p) == p

\* What ZipFile.extractall does to a member name before joining it to the
\* target directory: empty, "." and ".." segments are dropped.
SanitizedName(p) == DropInvalid(p)

\* Join base and a relative or absolute name and normalise the result.
RECURSIVE Resolve(_, _)
Resolve(base, p) ==
  IF p = <<>> THEN base
  ELSE LET s == Head(p) IN
       IF s = "" THEN Resolve(<<"/">>, Tail(p))
       ELSE IF s = "." THEN Resolve(base, Tail(p))
       ELSE IF s = ".."
         THEN IF base = <<>> \/ base[Len(base)] = ".."
                THEN Resolve(base \o <<"..">>, Tail(p))
              ELSE IF base = <<"/">> THEN Resolve(base, Tail(p))
              ELSE Resolve(SubSeq(base, 1, Len(base) - 1), Tail(p))
       ELSE Resolve(base \o <<s>>, Tail(p))

\* p lies strictly below the root directory.
IsDescendant(p) ==
  /\ Len(p) > Len(Root)
  /\ SubSeq(p, 1, Len(Root)) = Root

\* Another catalog entry: the next one in catalog order, cyclically.
OtherKey(k) ==
  LET i == CHOOSE j \in 1..Len(CatalogOrder) : CatalogOrder[j] = k
  IN CatalogOrder[(i % Len(CatalogOrder)) + 1]

\* Entry names the remote host may put in the archive served for key k: a
\* file of the expected top-level directory, a file of another model's
\* directory, a name with a parent-directory segment and an absolute name.
EntryNames(k) ==
  { <<Name(k), "am">>,
    <<Name(OtherKey(k)), "am">>,
    <<"..", "evil">>,
    <<"", "evil">> }

\* A body that is not a zip container, and the zip archives of up to
\* MaxEntries entries.
NotZip == <<"not-a-zip">>

Archives(k) ==
  UNION { [1..n -> EntryNames(k)] : n \in 1..MaxEntries }

\* The archive has an entry name with a traversal segment or a leading "/".
HasTraversal(a) ==
  \E i \in 1..Len(a) : \E j \in 1..Len(a[i]) : a[i][j] \in InvalidPathParts

\* ---------------------------------------------------------------- state
VARIABLES
  dirs,        \* names of the directories directly under models_dir
  files,       \* names of the plain files directly under models_dir
  pc,          \* position inside download_model, or "idle"
  op,          \* the operation in progress ("none" when idle)
  key,         \* model_key of the running download_model call
  todo,        \* download_recommended: catalog keys not yet visited
  success,     \* download_recommended: the aggregate flag
  calls,       \* download_model calls made by the running operation
  httpCalls,   \* requests.get calls made by the running download_model
  total_size,  \* download_model local
  downloaded,  \* download_model local
  progress,    \* progress values printed by the running download_model
  archive,     \* content of the file at zip_path once the body has ended
  unsafe,      \* the extracted archive had traversal or absolute names
  written,     \* the paths of the files extractall created
  primary,     \* outcome of download and extraction: "none", "ok", "fail"
  delFailed,   \* an unlink of the temporary archive raised
  retval,      \* value download_model returns
  raised,      \* download_model ends with an uncaught exception
  afterOk,     \* this download(key) directly follows a download(key) = True
  entryDirs,   \* dirs when download_model was entered
  entryFiles,  \* files when download_model was entered
  unlinkFailures,  \* unlink calls that have failed so far
  ret          \* result of the last completed operation

fsVars == <<dirs, files>>
loopVars == <<todo, success, calls>>
vars == <<dirs, files, pc, op, key, todo, success, calls, httpCalls,
          total_size, downloaded, progress, archive, unsafe, written, primary,
          delFailed, retval, raised, afterOk, entryDirs, entryFiles,
          unlinkFailures, ret>>

NoArchive == <<>>
NoPath == <<>>

\* The outcome of one operation: which operation, its argument, the value it
\* returned, whether an exception left it, the process exit status (-1 when
\* the operation is not a command-line run) and the download_model calls a
\* download_recommended made.
Result(o, a, v, r, e, c) == <<o, a, v, r, e, c>>
ResultOp(x) == x[1]
ResultArg(x) == x[2]
ResultValue(x) == x[3]
ResultRaised(x) == x[4]
ResultExit(x) == x[5]
ResultCalls(x) == x[6]

NoResult == Result("none", "", FALSE, FALSE, -1, <<>>)

\* ---------------------------------------------------------------- helpers
\* is_model_downloaded: the path exists and is a directory.
is_model_downloaded(model_name, d) == model_name \in d

\* The catalog keys of a sequence of keys that are recommended, in order.
RECURSIVE RecommendedOf(_)
RecommendedOf(s) ==
  IF s = <<>> THEN <<>>
  ELSE IF available_models[Head(s)].recommended
         THEN <<Head(s)>> \o RecommendedOf(Tail(s))
       ELSE RecommendedOf(Tail(s))

\* An unlink that leaves the file where it is (not what the code does).
LeaveZip(f, k) == f

\* zip_path.unlink() that succeeded.
RemoveZip(f, k) == f \ {ZipName(k)}

\* The entry checks with an unknown key taken for a model that is present
\* (not what the code does).
UnknownIsPresent(k, d) ==
  IF k \notin Keys THEN "present"
  ELSE IF is_model_downloaded(Name(k), d) THEN "present" ELSE "fetch"

\* The first two checks of download_model: "unknown" and "present" return
\* at once, "fetch" goes on to the network.
EntryOutcome(k, d) ==
  IF k \notin Keys THEN "unknown"
  ELSE IF is_model_downloaded(Name(k), d) THEN "present" ELSE "fetch"

\* A priority list with the full model ahead of the compact one (not what
\* the code does).
FullFirst(language_preference) ==
  IF language_preference = "hi"
    THEN <<"hi", "small-hi", "en", "small-en">>
  ELSE <<"en", "small-en", "hi", "small-hi">>

\* get_model_path: the priority list of a language preference.
priorities(language_preference) ==
  IF language_preference = "hi"
    THEN <<"small-hi", "hi", "small-en", "en">>
  ELSE <<"small-en", "en", "small-hi", "hi">>

RECURSIVE FirstDownloaded(_, _)
FirstDownloaded(ks, d) ==
  IF ks = <<>> THEN NoPath
  ELSE IF Head(ks) \in Keys /\ is_model_downloaded(Name(Head(ks)), d)
         THEN Root \o <<Name(Head(ks))>>
       ELSE FirstDownloaded(Tail(ks), d)

get_model_path(language_preference, d) ==
  FirstDownloaded(priorities(language_preference), d)

\* list_models: one line per catalog entry, in catalog order.
list_models(d) ==
  [i \in 1..Len(CatalogOrder) |->
     <<CatalogOrder[i], is_model_downloaded(Name(CatalogOrder[i]), d)>>]

\* status: the two partitions, each in catalog order.
RECURSIVE Partition(_, _, _)
Partition(s, d, want) ==
  IF s = <<>> THEN <<>>
  ELSE IF is_model_downloaded(Name(Head(s)), d) = want
         THEN <<Head(s)>> \o Partition(Tail(s), d, want)
       ELSE Partition(Tail(s), d, want)

status(d) ==
  [models_directory |-> Root,
   downloaded_models |-> Partition(CatalogOrder, d, TRUE),
   available_for_download |-> Partition(CatalogOrder, d, FALSE)]

\* ---------------------------------------------------------------- extractall
\* How the extraction of an entry may raise: "open" when the member cannot
\* be opened (unsupported compression method, bad header), after its parent
\* directories were created and before the target file is; "data" when its
\* data is corrupt (bad CRC) or a write fails, after the target file was
\* created.
FailKinds == {"open", "data"}

\* Extract the entries of a from index i on.  Every entry is a file.  For
\* each, the parent directories are created, the member is opened, the
\* target file is created and the data copied.  failAt is the index of the
\* entry whose extraction raises in the way how, 0 for none.  w collects the
\* files created.
RECURSIVE ExtractFrom(_, _, _, _, _, _, _)
ExtractFrom(a, i, failAt, how, d, f, w) ==
  IF i > Len(a) THEN [dirs |-> d, files |-> f, written |-> w, ok |-> TRUE]
  ELSE LET rel == SanitizedName(a[i])
           target == Resolve(Root, rel)
           inside == IsDescendant(target)
           top == IF inside THEN target[Len(Root) + 1] ELSE ""
           nested == inside /\ Len(target) > Len(Root) + 1
           stop(dd, ff, ww) ==
             [dirs |-> dd, files |-> ff, written |-> ww, ok |-> FALSE]
       IN
       IF nested /\ top \in f THEN stop(d, f, w)     \* the parent is a file
       ELSE LET d1 == IF nested THEN d \cup {top} ELSE d IN
         IF i = failAt /\ how = "open" THEN stop(d1, f, w)
         ELSE IF inside /\ ~nested /\ top \in d
           THEN stop(d1, f, w)                       \* the name is a directory
         ELSE LET f1 == IF inside /\ ~nested THEN f \cup {top} ELSE f
                  w1 == w \cup {target}
              IN
              IF i = failAt THEN stop(d1, f1, w1)
              ELSE ExtractFrom(a, i + 1, failAt, how, d1, f1, w1)

extractall(a, failAt, how, d, f) == ExtractFrom(a, 1, failAt, how, d, f, {})

\* ---------------------------------------------------------------- download_model
\* The locals of a download_model call before its first statement.
FreshCall ==
  /\ httpCalls' = 0
  /\ total_size' = 0
  /\ downloaded' = 0
  /\ progress' = <<>>
  /\ archive' = NoArchive
  /\ unsafe' = FALSE
  /\ written' = {}
  /\ primary' = "none"
  /\ delFailed' = FALSE
  /\ raised' = FALSE

\* download_model(k) up to its first network call: the catalog check and
\* the presence check.
Enter(k) ==
  /\ key' = k
  /\ entryDirs' = dirs
  /\ entryFiles' = files
  /\ FreshCall
  /\ LET o == EntryOutcome(k, dirs) IN
       /\ pc' = IF o = "fetch" THEN "get" ELSE "ret"
       /\ retval' = (o = "present")
  /\ UNCHANGED <<dirs, files, unlinkFailures>>

\* What the remote host answers: no connection, a non-success status, or a
\* success status with a Content-Length header that is absent, not a number,
\* or a number.
Responses ==
  {[kind |-> k, header |-> "absent", length |-> 0] :
     k \in {"connection-error", "http-error", "ok"}}
  \cup {[kind |-> "ok", header |-> "bad", length |-> 0]}
  \cup {[kind |-> "ok", header |-> "number", length |-> n] : n \in 0..MaxTotal}

\* int(response.headers.get('content-length', 0))
HeaderValue(resp) == IF resp.header = "absent" THEN 0 ELSE resp.length

\* requests.get, raise_for_status, the Content-Length header and the open
\* of zip_path for writing.
HttpGet(resp) ==
  /\ pc = "get"
  /\ httpCalls' = httpCalls + 1
  /\ IF resp.kind # "ok" \/ resp.header = "bad"
       THEN /\ pc' = "cleanup"
            /\ primary' = "fail"
            /\ UNCHANGED <<files, total_size>>
     ELSE /\ pc' = "stream"
          /\ total_size' = HeaderValue(resp)
          /\ files' = files \cup {ZipName(key)}
          /\ UNCHANGED primary
  /\ UNCHANGED <<dirs, op, key, todo, success, calls, downloaded, progress,
                 archive, unsafe, written, delFailed, retval, raised, afterOk,
                 entryDirs, entryFiles, unlinkFailures, ret>>

\* One iteration of the iter_content loop with a chunk of n bytes; an empty
\* chunk is skipped.
Chunk(n) ==
  /\ pc = "stream"
  /\ downloaded + n <= MaxBytes
  /\ IF n > 0
       THEN /\ downloaded' = downloaded + n
            /\ progress' = IF total_size > 0
                             THEN Append(progress,
                                         <<downloaded + n, total_size>>)
                           ELSE progress
     ELSE UNCHANGED <<downloaded, progress>>
  /\ UNCHANGED <<dirs, files, pc, op, key, todo, success, calls, httpCalls,
                 total_size, archive, unsafe, written, primary, delFailed,
                 retval, raised, afterOk, entryDirs, entryFiles,
                 unlinkFailures, ret>>

\* The locals of the streaming loop, not read after it.
LoopDone ==
  /\ total_size' = 0
  /\ downloaded' = 0
  /\ progress' = <<>>

\* The connection breaks, or a write fails, inside the loop.
StreamFail ==
  /\ pc = "stream"
  /\ pc' = "cleanup"
  /\ primary' = "fail"
  /\ LoopDone
  /\ UNCHANGED <<dirs, files, op, key, todo, success, calls, httpCalls,
                 archive, unsafe, written, delFailed, retval, raised, afterOk,
                 entryDirs, entryFiles, unlinkFailures, ret>>

\* The body ends and the file is closed; a is what it now holds.  An empty
\* file is never a zip container.
StreamEnd(a) ==
  /\ pc = "stream"
  /\ a # NotZip => downloaded > 0
  /\ pc' = "extract"
  /\ archive' = a
  /\ LoopDone
  /\ UNCHANGED <<dirs, files, op, key, todo, success, calls, httpCalls,
                 unsafe, written, primary, delFailed, retval, raised, afterOk,
                 entryDirs, entryFiles, unlinkFailures, ret>>

\* zipfile.ZipFile(zip_path) and extractall(self.models_dir).
Extract(failAt, how) ==
  /\ pc = "extract"
  /\ archive' = NoArchive
  /\ IF archive = NotZip
       THEN /\ failAt = 0
            /\ how = "data"
            /\ pc' = "cleanup"
            /\ primary' = "fail"
            /\ UNCHANGED <<dirs, files, written, unsafe>>
     ELSE LET r == extractall(archive, failAt, how, dirs, files) IN
          /\ failAt <= Len(archive)
          /\ failAt = 0 => how = "data"
          /\ dirs' = r.dirs
          /\ files' = r.files
          /\ written' = r.written
          /\ unsafe' = HasTraversal(archive)
          /\ pc' = IF r.ok THEN "unlink" ELSE "cleanup"
          /\ primary' = IF r.ok THEN "ok" ELSE "fail"
  /\ UNCHANGED <<op, key, todo, success, calls, httpCalls, total_size,
                 downloaded, progress, delFailed, retval, raised, afterOk,
                 entryDirs, entryFiles, unlinkFailures, ret>>

\* zip_path.unlink() after a complete extraction, then return True.  An
\* unlink that raises is caught by the except block.
Unlink(ok) ==
  /\ pc = "unlink"
  /\ IF ok
       THEN /\ files' = RemoveZip(files, key)
            /\ pc' = "ret"
            /\ retval' = TRUE
            /\ UNCHANGED <<delFailed, unlinkFailures>>
     ELSE /\ unlinkFailures < MaxUnlinkFailures
          /\ unlinkFailures' = unlinkFailures + 1
          /\ pc' = "cleanup"
          /\ delFailed' = TRUE
          /\ UNCHANGED <<files, retval>>
  /\ UNCHANGED <<dirs, op, key, todo, success, calls, httpCalls, total_size,
                 downloaded, progress, archive, unsafe, written, primary,
                 raised, afterOk, entryDirs, entryFiles, ret>>

\* The except block: unlink zip_path if it exists, then return False.  An
\* unlink that raises here leaves download_model with that exception.
Cleanup(ok) ==
  /\ pc = "cleanup"
  /\ pc' = "ret"
  /\ IF ZipName(key) \in files
       THEN IF ok
              THEN /\ files' = RemoveZip(files, key)
                   /\ retval' = FALSE
                   /\ UNCHANGED <<raised, delFailed, unlinkFailures>>
            ELSE /\ unlinkFailures < MaxUnlinkFailures
                 /\ unlinkFailures' = unlinkFailures + 1
                 /\ raised' = TRUE
                 /\ delFailed' = TRUE
                 /\ UNCHANGED <<files, retval>>
     ELSE /\ ok
          /\ retval' = FALSE
          /\ UNCHANGED <<files, raised, delFailed, unlinkFailures>>
  /\ UNCHANGED <<dirs, op, key, todo, success, calls, httpCalls, total_size,
                 downloaded, progress, archive, unsafe, written, primary,
                 afterOk, entryDirs, entryFiles, ret>>

\* ---------------------------------------------------------------- operations
\* An operation ends: its result is recorded and the call's locals are gone.
Finish(r) ==
  /\ pc' = "idle"
  /\ op' = "none"
  /\ ret' = r
  /\ key' = ""
  /\ todo' = <<>>
  /\ success' = TRUE
  /\ calls' = <<>>
  /\ retval' = FALSE
  /\ afterOk' = FALSE
  /\ entryDirs' = {}
  /\ entryFiles' = {}
  /\ FreshCall
  /\ UNCHANGED <<dirs, files, unlinkFailures>>

\* An operation that only reads the filesystem.
ReadOnly(r) ==
  /\ pc = "idle"
  /\ Finish(r)

\* is_model_downloaded(model_name)
IsModelDownloaded(model_name) ==
  ReadOnly(Result("is_model_downloaded", model_name,
                  is_model_downloaded(model_name, dirs), FALSE, -1, <<>>))

\* get_model_path(language_preference)
GetModelPath(language_preference) ==
  ReadOnly(Result("get_model_path", language_preference,
                  get_model_path(language_preference, dirs), FALSE, -1, <<>>))

\* status()
Status ==
  ReadOnly(Result("status", "", status(dirs), FALSE, -1, <<>>))

\* __main__ with no argument: usage, sys.exit(1).
MainUsage ==
  ReadOnly(Result("usage", "", FALSE, FALSE, 1, <<>>))

\* __main__ "list", and "download" without a key (which prints the list).
MainList(command) ==
  ReadOnly(Result(command, "", list_models(dirs), FALSE, 0, <<>>))

\* __main__ "status"
MainStatus ==
  ReadOnly(Result("main-status", "", status(dirs), FALSE, 0, <<>>))

\* __main__ with any other command.
MainUnknownCommand ==
  ReadOnly(Result("unknown-command", "", FALSE, FALSE, 0, <<>>))

\* __main__ "download <model_key>": download_model(model_key) is entered.
MainDownload(k) ==
  /\ pc = "idle"
  /\ op' = "download"
  /\ afterOk' = (ResultOp(ret) = "download" /\ ResultArg(ret) = k
                 /\ ~ResultRaised(ret) /\ ResultValue(ret) = TRUE)
  /\ ret' = NoResult
  /\ Enter(k)
  /\ UNCHANGED loopVars

\* __main__ "download-recommended": download_recommended() reaches its first
\* recommended entry.
MainDownloadRecommended ==
  /\ pc = "idle"
  /\ op' = "recommended"
  /\ afterOk' = FALSE
  /\ ret' = NoResult
  /\ success' = TRUE
  /\ calls' = <<>>
  /\ LET rec == RecommendedOf(CatalogOrder) IN
       /\ todo' = Tail(rec)
       /\ Enter(Head(rec))

\* The exit status of the __main__ block: it never calls sys.exit after a
\* command ran, so the status is 1 only when an exception ends the process.
ExitStatusOf(value, exc) == IF exc THEN 1 ELSE 0

\* download_model returns to "download <model_key>".
ReturnToMain ==
  /\ pc = "ret"
  /\ op = "download"
  /\ Finish(Result("download", key, retval, raised,
                   ExitStatusOf(retval, raised),
                   <<<<key, retval, raised>>>>))

\* download_model returns into the loop of download_recommended, which goes
\* on to the next recommended entry or returns success to __main__.
ReturnToLoop ==
  /\ pc = "ret"
  /\ op = "recommended"
  /\ LET c == Append(calls, <<key, retval, raised>>)
         s == success /\ retval
     IN
     IF raised
       THEN Finish(Result("recommended", "", FALSE, TRUE,
                          ExitStatusOf(FALSE, TRUE), c))
     ELSE IF todo = <<>>
       THEN Finish(Result("recommended", "", s, FALSE,
                          ExitStatusOf(s, FALSE), c))
     ELSE /\ calls' = c
          /\ success' = s
          /\ todo' = Tail(todo)
          /\ Enter(Head(todo))
          /\ UNCHANGED <<op, afterOk, ret>>

\* ---------------------------------------------------------------- specification
\* Any set of models may already be downloaded, and an interrupted earlier
\* run may have left a temporary archive behind.
Init ==
  /\ dirs \in SUBSET ModelNames
  /\ files \in {{}, {ZipName(CatalogOrder[1])}}
  /\ pc = "idle"
  /\ op = "none"
  /\ key = ""
  /\ todo = <<>>
  /\ success = TRUE
  /\ calls = <<>>
  /\ httpCalls = 0
  /\ total_size = 0
  /\ downloaded = 0
  /\ progress = <<>>
  /\ archive = NoArchive
  /\ unsafe = FALSE
  /\ written = {}
  /\ primary = "none"
  /\ delFailed = FALSE
  /\ retval = FALSE
  /\ raised = FALSE
  /\ afterOk = FALSE
  /\ entryDirs = {}
  /\ entryFiles = {}
  /\ unlinkFailures = 0
  /\ ret = NoResult

Next ==
  \/ \E n \in ModelNames : IsModelDownloaded(n)
  \/ \E p \in Preferences : GetModelPath(p)
  \/ Status
  \/ MainUsage
  \/ \E c \in {"list", "download-without-key"} : MainList(c)
  \/ MainStatus
  \/ MainUnknownCommand
  \/ \E k \in KeyArgs : MainDownload(k)
  \/ MainDownloadRecommended
  \/ \E r \in Responses : HttpGet(r)
  \/ \E n \in 0..MaxChunk : Chunk(n)
  \/ StreamFail
  \/ pc = "stream" /\ \E a \in Archives(key) \cup {NotZip} : StreamEnd(a)
  \/ \E i \in 0..MaxEntries : \E h \in FailKinds : Extract(i, h)
  \/ \E ok \in BOOLEAN : Unlink(ok)
  \/ \E ok \in BOOLEAN : Cleanup(ok)
  \/ ReturnToMain
  \/ ReturnToLoop

Spec == Init /\ [][Next]_vars

\* ---------------------------------------------------------------- properties
\* download_model has returned a value to its caller (no exception).
Returned == pc = "ret" /\ ~raised

\* C1: when download(k) directly follows a download(k) that returned True,
\* the second call returns True at once and makes no HTTP request, whatever
\* the archive of the first call contained.
C1_SecondCallAlreadyPresent ==
  (op = "download" /\ afterOk) =>
     /\ pc = "ret"
     /\ retval = TRUE
     /\ ~raised
     /\ httpCalls = 0

\* C2: a download_model call that got past the catalog and presence checks
\* and returns a value, False or True, leaves no <archiveName>.zip under the
\* root.
C2_NoResidualArchive ==
  (Returned /\ httpCalls > 0) => ZipName(key) \notin files

\* C2 witness: a call returns False after an extraction that wrote some
\* entries and then failed, and the temporary archive is gone.
C2_Witness ==
  /\ Returned
  /\ httpCalls > 0
  /\ retval = FALSE
  /\ primary = "fail"
  /\ written # {}
  /\ ZipName(key) \notin files

\* C3: download of a key that is not in the catalog returns False, makes no
\* HTTP request and leaves every file and directory under the root as it was.
C3_UnknownKeyNoSideEffect ==
  /\ (pc = "ret" /\ key \notin Keys) =>
        /\ retval = FALSE
        /\ ~raised
        /\ httpCalls = 0
        /\ dirs = entryDirs
        /\ files = entryFiles
  /\ (pc = "idle" /\ ResultOp(ret) = "download"
        /\ ResultArg(ret) \notin Keys) =>
        /\ ResultValue(ret) = FALSE
        /\ ~ResultRaised(ret)

\* C3 witness: an unknown key was rejected over a root that is not empty.
C3_Witness ==
  /\ pc = "ret"
  /\ key = UnknownKey
  /\ dirs # {}
  /\ retval = FALSE

\* The keys and the return values of the download_model calls of a result.
CallKeys(c) == [i \in 1..Len(c) |-> c[i][1]]
CallSucceeded(c, i) == c[i][2] = TRUE /\ ~c[i][3]

\* C4: download_recommended calls download_model once for every recommended
\* entry, in catalog order, whatever the failure of an earlier entry, and its
\* result is True exactly when every one of these calls returned True.
C4_RecommendedVisitsAll ==
  (pc = "idle" /\ ResultOp(ret) = "recommended") =>
     /\ CallKeys(ResultCalls(ret)) = RecommendedOf(CatalogOrder)
     /\ ~ResultRaised(ret)
     /\ ResultValue(ret) = (\A i \in 1..Len(ResultCalls(ret)) :
                                CallSucceeded(ResultCalls(ret), i))

\* The priority list of the specification: compact then full model of the
\* preferred language, then compact and full model of the fallback language.
CompactKey(lang) == "small-" \o lang
FullKey(lang) == lang
PreferredLanguage(pref) == IF pref = "hi" THEN "hi" ELSE "en"
FallbackLanguage(pref) == IF pref = "hi" THEN "en" ELSE "hi"
PriorityList(pref) ==
  <<CompactKey(PreferredLanguage(pref)), FullKey(PreferredLanguage(pref)),
    CompactKey(FallbackLanguage(pref)), FullKey(FallbackLanguage(pref))>>

\* C5: get_model_path returns the path of the first key of the preference's
\* priority list whose directory exists under the root, and None exactly
\* when no key of the list is downloaded.
C5_BestAvailable ==
  (pc = "idle" /\ ResultOp(ret) = "get_model_path") =>
     LET pl == PriorityList(ResultArg(ret))
         down(i) == Name(pl[i]) \in dirs
     IN
     /\ (ResultValue(ret) = NoPath) <=> (\A i \in 1..Len(pl) : ~down(i))
     /\ \A i \in 1..Len(pl) :
          (down(i) /\ \A j \in 1..(i - 1) : ~down(j))
             => ResultValue(ret) = Root \o <<Name(pl[i])>>

\* C5 witness: with the compact Hindi and the full English model both
\* downloaded, preference "hi" resolves to the compact Hindi model.
C5_Witness ==
  /\ pc = "idle"
  /\ ResultOp(ret) = "get_model_path"
  /\ ResultArg(ret) = "hi"
  /\ Name("small-hi") \in dirs
  /\ Name("hi") \in dirs
  /\ Name("en") \in dirs
  /\ ResultValue(ret) = Root \o <<Name("small-hi")>>

\* C6: every path written by the extraction step is a descendant of the
\* root directory, also for entry names with ".." segments or a leading "/".
C6_ExtractionStaysInRoot ==
  \A p \in written : IsDescendant(p)

\* C6 witness: an archive with a traversal or absolute entry name was
\* extracted and its entry was written below the root.
C6_Witness ==
  /\ pc \in {"unlink", "cleanup"}
  /\ unsafe
  /\ Root \o <<"evil">> \in written

\* C7: "download <key>" and "download-recommended" end with exit status 0
\* only when the operation succeeded, and with a non-zero status otherwise.
C7_ExitStatusReflectsFailure ==
  (pc = "idle" /\ ResultOp(ret) \in {"download", "recommended"}) =>
     ((ResultExit(ret) = 0)
        <=> (~ResultRaised(ret) /\ ResultValue(ret) = TRUE))

\* C8: when an unlink of the temporary archive fails, download_model still
\* returns a value, the value reflects the outcome of download and
\* extraction, and no exception leaves download_model.
C8_CleanupErrorSwallowed ==
  (pc = "ret" /\ delFailed) =>
     /\ ~raised
     /\ retval = (primary = "ok")

\* The progress value <<received, total>> as a fraction.
InUnitRange(v) == 0 <= v[1] /\ v[1] <= v[2]
Below(v, w) == v[1] * w[2] < w[1] * v[2]

\* C9: the progress values of one call are increasing and each lies between
\* 0% and 100%, whatever chunks the server delivers; without a declared
\* content length no value is emitted.
C9_ProgressMonotoneInRange ==
  /\ \A i \in 1..Len(progress) : InUnitRange(progress[i])
  /\ \A i \in 1..Len(progress) : \A j \in 1..Len(progress) :
       i < j => Below(progress[i], progress[j])
  /\ (pc = "stream" /\ total_size = 0) => progress = <<>>

\* C10: when download_model ends, a catalog entry that was not downloaded at
\* its start is downloaded only if the call was for that entry and returned
\* True, and every entry downloaded at its start still is.
C10_DownloadedOnlyBySuccess ==
  pc = "ret" =>
     \A k \in Keys :
        /\ (Name(k) \in dirs /\ Name(k) \notin entryDirs) =>
              (k = key /\ retval = TRUE /\ ~raised)
        /\ Name(k) \in entryDirs => Name(k) \in dirs

====
